---- MODULE Spec2Model ----
(***************************************************************************)
(* Render job lifecycle of the AI tutor backend: the job store             *)
(* (app/services/job_store.py), the render pipeline                        *)
(* (app/services/render_service.py), the admission path (app/routes.py,    *)
(* app/services/validation_service.py) and the sliding-window rate limiter *)
(* (app/middleware.py, app/services/validation_service.py).                *)
(*                                                                         *)
(* The server is a single asyncio event loop: a coroutine runs without     *)
(* interruption between two awaits.  Each action below is one such         *)
(* synchronous segment; the only segment that is split in two is the       *)
(* final segment of _process_render_job, whose try body and except         *)
(* handler are separate steps joined by the guard LoopIdle, which keeps    *)
(* every other coroutine from running in between.                          *)
(***************************************************************************)
EXTENDS Integers, Sequences, FiniteSets, TLC

VARIABLES jobs, job_order, job_history, tasks, files, now, nextId, lastResponse,
          polled, rate_limit_storage, admitted, lastAllow,
          metrics_cache, metrics_cache_time

vars == <<jobs, job_order, job_history, tasks, files, now, nextId, lastResponse,
          polled, rate_limit_storage, admitted, lastAllow,
          metrics_cache, metrics_cache_time>>

cacheVars == <<metrics_cache, metrics_cache_time>>
jobVars == <<jobs, job_order, job_history, tasks, files, nextId, lastResponse, polled,
             cacheVars>>
rateVars == <<rate_limit_storage, admitted, lastAllow>>

(***************************************************************************)
(* Bounds of the model.                                                    *)
(***************************************************************************)
MaxJobs == 2
MaxHours == 2
MaxSecs == 0

(***************************************************************************)
(* Optional values: None is the empty sequence, Some(x) a singleton.       *)
(***************************************************************************)
None == <<>>
Some(x) == <<x>>

SecondsPerHour == 3600
HistoryCap == 1000

TerminalStatuses == {"ready", "error"}
Statuses == {"queued", "rendering", "ready", "error"}

(***************************************************************************)
(* Text.  A filename is a sequence of one-character strings; a code text   *)
(* is a sequence of source lines taken from CodeLines.                     *)
(***************************************************************************)
LowerLetters == <<"a","b","c","d","e","f","g","h","i","j","k","l","m",
                  "n","o","p","q","r","s","t","u","v","w","x","y","z">>
UpperLetters == <<"A","B","C","D","E","F","G","H","I","J","K","L","M",
                  "N","O","P","Q","R","S","T","U","V","W","X","Y","Z">>
Digits == {"0","1","2","3","4","5","6","7","8","9"}
Whitespace == {" ", "\t", "\n"}

Range(s) == {s[i] : i \in DOMAIN s}

\* str.lower() on one character and on a whole name
LowerChar(c) ==
    IF \E i \in DOMAIN UpperLetters : UpperLetters[i] = c
    THEN LowerLetters[CHOOSE i \in DOMAIN UpperLetters : UpperLetters[i] = c]
    ELSE c
Lower(s) == [i \in DOMAIN s |-> LowerChar(s[i])]

\* str.strip(): drop leading and trailing whitespace
RECURSIVE LStrip(_)
LStrip(s) == IF s # <<>> /\ Head(s) \in Whitespace THEN LStrip(Tail(s)) ELSE s
RECURSIVE RStrip(_)
RStrip(s) ==
    IF s # <<>> /\ s[Len(s)] \in Whitespace
    THEN RStrip(SubSeq(s, 1, Len(s) - 1)) ELSE s
Strip(s) == RStrip(LStrip(s))

\* re.sub(r'\.[^.]*$', '', filename): cut from the last dot to the end
RemoveExtension(s) ==
    IF \E i \in DOMAIN s : s[i] = "."
    THEN LET last == CHOOSE i \in DOMAIN s :
                        s[i] = "." /\ \A j \in DOMAIN s : s[j] = "." => j <= i
         IN  SubSeq(s, 1, last - 1)
    ELSE s

\* the character class [a-zA-Z0-9_-]
SafeChars == Range(LowerLetters) \cup Range(UpperLetters) \cup Digits \cup {"_", "-"}

FilenameMaxLen == 50

reserved_names ==
    { <<"c","o","n">>, <<"p","r","n">>, <<"a","u","x">>, <<"n","u","l">> }
    \cup { <<"c","o","m",d>> : d \in Digits \ {"0"} }
    \cup { <<"l","p","t",d>> : d \in Digits \ {"0"} }

FilePrefix == <<"f","i","l","e","_">>

Ok(v) == [ok |-> TRUE, value |-> v, error |-> ""]
Err(m) == [ok |-> FALSE, value |-> <<>>, error |-> m]

\* re.match(r'^[a-zA-Z0-9_-]+$', name): one or more safe characters up to the
\* end of the name, where "$" also matches just before a final newline
MatchesSafeChars(name) ==
    LET matched == IF name # <<>> /\ name[Len(name)] = "\n"
                   THEN SubSeq(name, 1, Len(name) - 1) ELSE name
    IN  matched # <<>> /\ \A i \in DOMAIN matched : matched[i] \in SafeChars

\* ValidationService.validate_filename
validate_filename(filename) ==
    IF filename = <<>> THEN Err("Filename cannot be empty")
    ELSE LET name == RemoveExtension(Strip(filename)) IN
         IF Len(name) < 1 THEN Err("Filename must have content")
         ELSE IF Len(name) > FilenameMaxLen
              THEN Err("Filename must be no more than 50 characters")
         ELSE IF ~ MatchesSafeChars(name)
              THEN Err("Filename can only contain letters, numbers, underscores, and hyphens")
         ELSE IF Lower(name) \in reserved_names
              THEN Err("Filename is reserved and cannot be used")
         ELSE IF name[1] \in {"-", "_"} THEN Ok(FilePrefix \o name)
         ELSE Ok(name)

(***************************************************************************)
(* Code texts.  LineInfo gives, for every line of the vocabulary, what the *)
(* patterns of validate_code and _get_scene_class_name find in it (the     *)
(* text is lower-cased before matching, which none of these facts depends  *)
(* on).  No line of a text begins or ends the text with whitespace of its  *)
(* own, so str.strip() removes exactly the blank lines at both ends.       *)
(***************************************************************************)
Info(len, imp, kw, fileop, net, manim, cls, construct, scene, anyclass) ==
    [len |-> len, import |-> imp, keyword |-> kw, fileop |-> fileop,
     network |-> net, manim |-> manim, class |-> cls,
     construct |-> construct, scene |-> scene, anyclass |-> anyclass]

LineInfo(line) ==
    CASE line = "from manim import *" ->
            Info(19, "manim", "", FALSE, FALSE, TRUE, FALSE, FALSE, "", "")
      [] line = "import os" ->
            Info(9, "os", "", FALSE, FALSE, FALSE, FALSE, FALSE, "", "")
      [] line = "class Demo(Scene):" ->
            Info(18, "", "", FALSE, FALSE, FALSE, TRUE, FALSE, "Demo", "Demo")
      [] line = "class Demo:" ->
            Info(11, "", "", FALSE, FALSE, FALSE, TRUE, FALSE, "", "")
      [] line = "class Helper(Base):" ->
            Info(19, "", "", FALSE, FALSE, FALSE, TRUE, FALSE, "", "Helper")
      [] line = "    def construct(self): pass" ->
            Info(29, "", "", FALSE, FALSE, FALSE, FALSE, TRUE, "", "")
      [] line = "x = 1" ->
            Info(5, "", "", FALSE, FALSE, FALSE, FALSE, FALSE, "", "")
      [] line = "data = open(path)" ->
            Info(17, "", "", TRUE, FALSE, FALSE, FALSE, FALSE, "", "")
      [] line = "v = eval(s)" ->
            Info(11, "", "eval(", FALSE, FALSE, FALSE, FALSE, FALSE, "", "")
      [] line = "u = 'http://x'" ->
            Info(14, "", "", FALSE, TRUE, FALSE, FALSE, FALSE, "", "")
      [] line = "" ->
            Info(0, "", "", FALSE, FALSE, FALSE, FALSE, FALSE, "", "")

DANGEROUS_IMPORTS ==
    {"os", "sys", "subprocess", "importlib", "exec", "eval", "open", "file",
     "__import__", "globals", "locals", "compile", "execfile", "input",
     "raw_input"}

DANGEROUS_KEYWORDS ==
    {"exec(", "eval(", "compile(", "__import__(", "globals(", "locals(",
     "vars(", "dir(", "getattr(", "setattr(", "delattr(", "hasattr(",
     "input(", "raw_input("}

CodeMinLen == 10
CodeMaxLen == 5000

\* len(code): the lines and the newlines between them
RECURSIVE SumLen(_)
SumLen(code) == IF code = <<>> THEN 0 ELSE LineInfo(Head(code)).len + SumLen(Tail(code))
CodeLen(code) == IF code = <<>> THEN 0 ELSE SumLen(code) + (Len(code) - 1)

\* code.strip()
RECURSIVE DropBlankFront(_)
DropBlankFront(code) ==
    IF code # <<>> /\ Head(code) = "" THEN DropBlankFront(Tail(code)) ELSE code
RECURSIVE DropBlankBack(_)
DropBlankBack(code) ==
    IF code # <<>> /\ code[Len(code)] = ""
    THEN DropBlankBack(SubSeq(code, 1, Len(code) - 1)) ELSE code
StripCode(code) == DropBlankBack(DropBlankFront(code))

\* ValidationService.validate_code
validate_code(code) ==
    IF code = <<>> THEN Err("Code cannot be empty")
    ELSE LET text == StripCode(code)
             has(f) == \E i \in DOMAIN text : LineInfo(text[i])[f]
         IN
         IF CodeLen(text) < CodeMinLen THEN Err("Code is too short to be valid")
         ELSE IF CodeLen(text) > CodeMaxLen
              THEN Err("Code exceeds maximum length of 5000 characters")
         ELSE IF \E i \in DOMAIN text : LineInfo(text[i]).import \in DANGEROUS_IMPORTS
              THEN Err("Dangerous import detected")
         ELSE IF \E i \in DOMAIN text : LineInfo(text[i]).keyword \in DANGEROUS_KEYWORDS
              THEN Err("Dangerous function detected")
         ELSE IF has("fileop")
              THEN Err("File operations are not allowed in animation code")
         ELSE IF has("network")
              THEN Err("Network operations are not allowed in animation code")
         ELSE IF ~ has("manim") THEN Err("Code must import manim")
         ELSE IF ~ has("class") THEN Err("Code must define a Scene class")
         ELSE IF ~ has("construct") THEN Err("Code must have a construct method")
         ELSE Ok(text)

(***************************************************************************)
(* The job store (EnhancedJobStore).  jobs maps the identifiers in the     *)
(* table to JobStore records; job_history is _job_history.                 *)
(***************************************************************************)
\* a job that is created already rendering
NewJobRendering(id, filename, code, t) ==
    [id |-> id, status |-> "rendering", filename |-> filename, code |-> code,
     created_at |-> t, updated_at |-> t,
     video_path |-> None, error_message |-> None]

\* JobStore(id, status="queued", ...) as built by create_render_job
NewJob(id, filename, code, t) ==
    [id |-> id, status |-> "queued", filename |-> filename, code |-> code,
     created_at |-> t, updated_at |-> t,
     video_path |-> None, error_message |-> None]

\* EnhancedJobStore.add_job: self._jobs[job.id] = job
add_job(store, job) ==
    [i \in DOMAIN store \cup {job.id} |-> IF i = job.id THEN job ELSE store[i]]

\* EnhancedJobStore.get_job
HasJob(store, id) == id \in DOMAIN store

\* the order of the keys of the dict self._jobs, which is the order of their
\* insertion: a key that is assigned again keeps its place, a key that is
\* popped loses it, a new key goes to the end
RECURSIVE AscendingSeq(_)
AscendingSeq(S) ==
    IF S = {} THEN << >>
    ELSE LET m == CHOOSE x \in S : \A y \in S : x <= y
         IN  <<m>> \o AscendingSeq(S \ {m})

DictOrder(order, store) ==
    LET present(i) == i \in DOMAIN store
    IN  SelectSeq(order, present) \o AscendingSeq(DOMAIN store \ Range(order))

\* JobStore derives from pydantic's BaseModel; it is not a dataclass
JobStoreIsDataclass == FALSE

\* dataclasses.asdict(job) raises TypeError unless job is a dataclass instance
AsdictRaises == ~ JobStoreIsDataclass

AsdictError == "asdict() should be called on dataclass instances"

\* the record _archive_job appends
HistoryRecord(job, t) ==
    [id |-> job.id, status |-> job.status, filename |-> job.filename,
     code |-> job.code, created_at |-> job.created_at,
     updated_at |-> job.updated_at, video_path |-> job.video_path,
     error_message |-> job.error_message,
     completed_at |-> t, total_processing_time |-> t - job.created_at]

\* self._job_history[-1000:]
LastN(h, n) == IF Len(h) > n THEN SubSeq(h, Len(h) - n + 1, Len(h)) ELSE h

\* EnhancedJobStore._archive_job, when asdict does not raise
ArchiveJob(history, job, t) == LastN(Append(history, HistoryRecord(job, t)), HistoryCap)

\* an update loop that never assigns the status
ApplyUpdatesSkipStatus(job, updates) ==
    [f \in DOMAIN job |-> IF f \in DOMAIN updates \ {"status"} THEN updates[f] ELSE job[f]]

\* the loop "for field, value in updates.items(): if hasattr(job, field): setattr"
ApplyUpdates(job, updates) ==
    [f \in DOMAIN job |-> IF f \in DOMAIN updates THEN updates[f] ELSE job[f]]

\* EnhancedJobStore.update_job for a job of the table.  The result holds the
\* table and the history after the call, the value returned (found) and
\* whether the call raised.
update_existing(store, history, id, updates, t) ==
    LET old_status == store[id].status
        job == [ApplyUpdates(store[id], updates) EXCEPT !.updated_at = t]
        new_status == job.status
        store2 == [store EXCEPT ![id] = job]
    IN  IF old_status # new_status /\ new_status \in TerminalStatuses
        THEN IF AsdictRaises
             THEN [jobs |-> store2, history |-> history,
                   found |-> TRUE, raised |-> TRUE]
             ELSE [jobs |-> store2, history |-> ArchiveJob(history, job, t),
                   found |-> TRUE, raised |-> FALSE]
        ELSE [jobs |-> store2, history |-> history,
              found |-> TRUE, raised |-> FALSE]

\* a store that inserts the job it does not find
update_job_upsert(store, history, id, updates, t) ==
    IF ~ HasJob(store, id)
    THEN update_existing(add_job(store, NewJob(id, <<>>, <<>>, t)), history, id, updates, t)
    ELSE update_existing(store, history, id, updates, t)

\* EnhancedJobStore.update_job
update_job(store, history, id, updates, t) ==
    IF ~ HasJob(store, id)
    THEN [jobs |-> store, history |-> history, found |-> FALSE, raised |-> FALSE]
    ELSE update_existing(store, history, id, updates, t)

\* EnhancedJobStore.remove_job
remove_job(store, id) == [i \in DOMAIN store \ {id} |-> store[i]]

\* a sweep that removes one expired job per call
jobs_to_remove_one(store, max_age_hours, t) ==
    LET old == {i \in DOMAIN store :
                   t - store[i].created_at > max_age_hours * SecondsPerHour}
    IN  IF old = {} THEN {} ELSE {CHOOSE i \in old : \A j \in old : i <= j}

\* EnhancedJobStore.cleanup_old_jobs: the identifiers it removes
jobs_to_remove(store, max_age_hours, t) ==
    {i \in DOMAIN store : t - store[i].created_at > max_age_hours * SecondsPerHour}

HistoryRetentionFactor == 7

\* the history cleanup_old_jobs keeps
PruneHistory(history, max_age_hours, t) ==
    LET cutoff == t - max_age_hours * HistoryRetentionFactor * SecondsPerHour
        keep(r) == r.completed_at > cutoff
    IN  SelectSeq(history, keep)

\* the table after remove_job has been called for every identifier of a set
RECURSIVE RemoveAll(_, _)
RemoveAll(store, ids) ==
    IF ids = {} THEN store
    ELSE LET i == CHOOSE j \in ids : TRUE
         IN  RemoveAll(remove_job(store, i), ids \ {i})

\* EnhancedJobStore.cleanup_old_jobs: the table and the history after the
\* call and the number it returns
cleanup_old_jobs(store, history, max_age_hours, t) ==
    LET gone == jobs_to_remove(store, max_age_hours, t)
    IN  [jobs |-> RemoveAll(store, gone),
         history |-> PruneHistory(history, max_age_hours, t),
         count |-> Cardinality(gone)]

(***************************************************************************)
(* The job store on its own (EnhancedJobStore): queue positions, estimated *)
(* waits and retention, over tables and histories drawn at the start.      *)
(***************************************************************************)
MaxStoreJobs == 3
MaxStoreHistory == 2
StoreIds == 1 .. MaxStoreJobs
StoreStatuses == {"queued", "rendering", "error"}

\* max_age_hours = min(max(1, max_age_hours), 168)
MinAgeHours == 1
MaxAgeHours == 168
ClampAge(h) ==
    LET low == IF h < MinAgeHours THEN MinAgeHours ELSE h
    IN  IF low > MaxAgeHours THEN MaxAgeHours ELSE low
AgeInputs == {0, 1, 2}

\* the ages of the jobs and of the history records at the start, around the
\* two cut-offs of a sweep of one hour, and the processing times recorded
JobAgePool == {0, SecondsPerHour, SecondsPerHour + 1}
HistoryAgePool == {HistoryRetentionFactor * SecondsPerHour,
                   HistoryRetentionFactor * SecondsPerHour + 1}
ProcTimePool == {10, 25}
StoreNow == (HistoryRetentionFactor + 1) * SecondsPerHour

\* the message of a render that failed
RenderFailed == "Manim rendering failed"

DemoName == <<"d", "e", "m", "o">>
DemoCode == <<"from manim import *", "class Demo(Scene):",
              "    def construct(self): pass">>

\* a job as the pipeline leaves it in the table
StoredJob(id, status, created) ==
    ApplyUpdates(NewJob(id, DemoName, DemoCode, created),
                 IF status = "error"
                 THEN [status |-> "error", error_message |-> Some(RenderFailed)]
                 ELSE [status |-> status])

\* the tables at the start, as lists in the order of insertion: identifiers
\* (uuid4 values) in any order, creation times that do not decrease
StoreLists ==
    {l \in UNION {[1 .. n -> StoreIds \X StoreStatuses \X JobAgePool] :
                     n \in 0 .. MaxStoreJobs} :
        /\ \A a, b \in DOMAIN l : a # b => l[a][1] # l[b][1]
        /\ \A a, b \in DOMAIN l : a < b => l[a][3] >= l[b][3]}

\* the histories at the start: records in the order of completion
HistoryLists ==
    {h \in UNION {[1 .. n -> HistoryAgePool \X ProcTimePool] :
                     n \in 0 .. MaxStoreHistory} :
        \A a, b \in DOMAIN h : a < b => h[a][1] >= h[b][1]}

\* a queue that still counts the jobs being rendered
queued_or_rendering(store, order) ==
    LET waiting(i) == store[i].status \in {"queued", "rendering"}
    IN  SelectSeq(order, waiting)

\* self.get_jobs_by_status("queued"): the identifiers, in the dict's order
queued_jobs(store, order) ==
    LET queued(i) == store[i].status = "queued"
    IN  SelectSeq(order, queued)

\* a sort that puts a job before the jobs of the same creation time
InsertBeforeEqual(store, sorted, id) ==
    LET before(i) == store[i].created_at < store[id].created_at
        after(i) == ~ before(i)
    IN  SelectSeq(sorted, before) \o <<id>> \o SelectSeq(sorted, after)

\* one step of the stable sort by created_at: the job goes after the jobs
\* created before it or at the same time
InsertByCreated(store, sorted, id) ==
    LET before(i) == store[i].created_at <= store[id].created_at
        after(i) == ~ before(i)
    IN  SelectSeq(sorted, before) \o <<id>> \o SelectSeq(sorted, after)

\* queued_jobs.sort(key=lambda j: j.created_at)
RECURSIVE SortByCreated(_, _, _)
SortByCreated(store, sorted, rest) ==
    IF rest = << >> THEN sorted
    ELSE SortByCreated(store, InsertByCreated(store, sorted, Head(rest)), Tail(rest))

\* next(i for i, j in enumerate(queued_jobs, 1) if j.id == job_id)
IndexOf(seq, x) == CHOOSE i \in DOMAIN seq : seq[i] = x /\ \A j \in 1 .. i - 1 : seq[j] # x

\* EnhancedJobStore.get_queue_position: None, or the 1-based position
get_queue_position(store, order, job_id) ==
    IF ~ HasJob(store, job_id) \/ store[job_id].status # "queued"
    THEN None
    ELSE LET sorted == SortByCreated(store, << >>, queued_jobs(store, order))
         IN  IF job_id \in Range(sorted) THEN Some(IndexOf(sorted, job_id)) ELSE None

RECURSIVE SumTimes(_)
SumTimes(records) ==
    IF records = << >> THEN 0
    ELSE Head(records).total_processing_time + SumTimes(Tail(records))

\* _calculate_metrics: the records that count, and their average as a fraction
completed_jobs(history) ==
    LET timed(r) == r.total_processing_time # 0
    IN  SelectSeq(history, timed)

Fraction(num, den) == [num |-> num, den |-> den]

average_processing_time(history) ==
    IF completed_jobs(history) = << >> THEN Fraction(0, 1)
    ELSE Fraction(SumTimes(completed_jobs(history)), Len(completed_jobs(history)))

FallbackWaitSeconds == 30

\* an estimate that counts the job itself among the jobs ahead
JobsAheadWithSelf(position) == position

\* "position - 1": the jobs ahead of the job
JobsAhead(position) == position - 1

\* EnhancedJobStore.get_estimated_wait_time: None, or the wait as a fraction
get_estimated_wait_time(store, order, history, job_id) ==
    LET position == get_queue_position(store, order, job_id)
        avg == average_processing_time(history)
    IN  IF position = None THEN None
        ELSE IF avg.num > 0
        THEN LET wait == JobsAhead(position[1]) * avg.num
             IN  Some(Fraction(IF wait < 0 THEN 0 ELSE wait, avg.den))
        ELSE Some(Fraction(JobsAhead(position[1]) * FallbackWaitSeconds, 1))

\* len([... if job.get("status") == "ready"]) over the records that count
RECURSIVE CountReady(_)
CountReady(records) ==
    IF records = << >> THEN 0
    ELSE (IF Head(records).status = "ready" THEN 1 ELSE 0) + CountReady(Tail(records))

\* EnhancedJobStore._calculate_metrics
calculate_metrics(store, history) ==
    LET done == completed_jobs(history)
    IN  [total_jobs |-> Cardinality(DOMAIN store),
         jobs_by_status |->
             [st \in Statuses |-> Cardinality({i \in DOMAIN store : store[i].status = st})],
         average_render_time |-> average_processing_time(history),
         success_rate |-> IF done = << >> THEN Fraction(0, 1)
                          ELSE Fraction(100 * CountReady(done), Len(done)),
         error_rate |-> IF done = << >> THEN Fraction(0, 1)
                        ELSE Fraction(100 * (Len(done) - CountReady(done)), Len(done))]

MetricsCacheDuration == 30

\* EnhancedJobStore.get_metrics: the metrics it returns and the cache after
\* the call
get_metrics(cache, cache_time, store, history, force_refresh, t) ==
    IF ~ force_refresh /\ cache # None /\ t - cache_time < MetricsCacheDuration
    THEN [metrics |-> cache[1], cache |-> cache, time |-> cache_time]
    ELSE [metrics |-> calculate_metrics(store, history),
          cache |-> Some(calculate_metrics(store, history)), time |-> t]

\* EnhancedJobStore._invalidate_metrics_cache
Invalidate == metrics_cache' = None /\ UNCHANGED metrics_cache_time

\* the cache after update_job: the call invalidates it in its last statement
\* but one, which a job that is not found and an exception never reach
CacheAfterUpdate(r) ==
    IF r.found /\ ~ r.raised THEN Invalidate ELSE UNCHANGED cacheVars

(***************************************************************************)
(* The render pipeline (RenderService).                                    *)
(***************************************************************************)
JobIds == 1 .. MaxJobs

\* RenderService._get_safe_filepath; ts is the formatted timestamp
SafeFilepath(filename, extension, t) ==
    [dir |-> IF extension = ".py" THEN "code" ELSE "videos",
     base |-> filename, ts |-> t, ext |-> extension]

NoPath == [dir |-> "", base |-> <<>>, ts |-> 0, ext |-> ""]

\* RenderService._get_scene_class_name: the class name, or "" when it raises
get_scene_class_name(code) ==
    IF \E i \in DOMAIN code : LineInfo(code[i]).scene # ""
    THEN LET first == CHOOSE i \in DOMAIN code :
                 /\ LineInfo(code[i]).scene # ""
                 /\ \A j \in DOMAIN code : LineInfo(code[j]).scene # "" => i <= j
         IN  LineInfo(code[first]).scene
    ELSE IF \E i \in DOMAIN code : LineInfo(code[i]).anyclass # ""
    THEN LET first == CHOOSE i \in DOMAIN code :
                 /\ LineInfo(code[i]).anyclass # ""
                 /\ \A j \in DOMAIN code : LineInfo(code[j]).anyclass # "" => i <= j
         IN  LineInfo(code[first]).anyclass
    ELSE ""

SaveError == "Failed to save code file"
NoSceneError == "No Scene class found in code"

\* f"Render processing error: {str(e)}"
ProcessingError(e) ==
    CASE e = SaveError -> "Render processing error: Failed to save code file"
      [] e = NoSceneError -> "Render processing error: No Scene class found in code"
      [] e = AsdictError ->
           "Render processing error: asdict() should be called on dataclass instances"

\* RenderJob, the body of a response
RenderJob(jobId, status, videoUrl, error) ==
    [jobId |-> jobId, status |-> status, videoUrl |-> videoUrl, error |-> error]

NoBody == RenderJob(0, "", None, None)

\* f"/static/videos/{Path(job.video_path).name}"
VideoUrl(path) == [prefix |-> "/static/videos/", base |-> path.base,
                   ts |-> path.ts, ext |-> path.ext]

\* a status answer that gives the video of any job that has a path
get_job_status_any_path(job) ==
    RenderJob(job.id, job.status,
              IF job.video_path # None
              THEN Some(VideoUrl(job.video_path[1])) ELSE None,
              job.error_message)

\* RenderService.get_job_status for a job of the table
get_job_status(job) ==
    RenderJob(job.id, job.status,
              IF job.status = "ready" /\ job.video_path # None
              THEN Some(VideoUrl(job.video_path[1])) ELSE None,
              job.error_message)

\* an HTTP answer: the status code and the body, with the request it answers
Response(op, request, http, body) ==
    [op |-> op, request |-> request, http |-> http, body |-> body]

\* the body of POST /api/render
RenderRequest(filename, code) == [filename |-> filename, code |-> code]
NoRequest == RenderRequest(<<>>, <<>>)

\* the answer of GET /api/render/{job_id}
StatusResponse(store, id) ==
    IF HasJob(store, id)
    THEN Response("poll", NoRequest, 200, get_job_status(store[id]))
    ELSE Response("poll", NoRequest, 404, RenderJob(id, "", None, None))

\* the local variables of one _process_render_job task
IdleTask == [pc |-> "none", code_path |-> NoPath, video_path |-> NoPath,
             exc |-> "", proc |-> "none"]

\* a task that has ended, normally ("done") or with an exception that
\* escaped it ("crashed"): its local variables are gone, its subprocess is not
Finished(pc, proc) == [IdleTask EXCEPT !.pc = pc, !.proc = proc]

\* handlers that run in threads: any interleaving
AnyInterleaving == TRUE

\* the event loop runs one coroutine at a time: no task is inside a segment
LoopIdle == \A i \in JobIds : tasks[i].pc # "except"

(***************************************************************************)
(* What clients submit.                                                    *)
(***************************************************************************)
FilenamePool ==
    { <<"d","e","m","o",".","p","y">>, <<"a","/","b">> }

CodePool ==
    { <<"from manim import *", "class Demo(Scene):", "    def construct(self): pass">>,
      <<"from manim import *", "import os", "class Demo(Scene):",
        "    def construct(self): pass">> }

\* names for validate_filename: a first character, a run of letters and an
\* ending, with run lengths around the bounds of the length check, and the
\* reserved names in both cases
RECURSIVE Fill(_)
Fill(n) == IF n = 0 THEN << >> ELSE <<"a">> \o Fill(n - 1)
NameStarts == { << >>, <<"-">>, <<"_">>, <<"C">>, <<" ">> }
NameRuns == {0, 1, 2, FilenameMaxLen - Len(FilePrefix) - 1, FilenameMaxLen - Len(FilePrefix),
             FilenameMaxLen - 1, FilenameMaxLen, FilenameMaxLen + 1}
NameEnds == { << >>, <<".", "p", "y">>, <<"/">>, <<"\n", ".", "p", "y">> }
NamePool ==
    { a \o Fill(n) \o z : a \in NameStarts, n \in NameRuns, z \in NameEnds }
    \cup reserved_names
    \cup { <<"C","O","N">>, <<"c","o","n",".","p","y">>, <<"c","o","n","\n",".","p","y">>,
           <<"_","c","o","n">> }

\* code texts that validate_code accepts: with a class derived from Scene,
\* with a class derived from something else, with a class without bases
ScenePool ==
    { <<"from manim import *", "class Demo(Scene):", "    def construct(self): pass">>,
      <<"from manim import *", "class Helper(Base):", "    def construct(self): pass">>,
      <<"from manim import *", "class Demo:", "    def construct(self): pass">> }

MaxAgeHoursPool == {1}
ClockSteps == {1, SecondsPerHour}
PollIds == JobIds

(***************************************************************************)
(* POST /api/render (routes.render_animation): validation, then            *)
(* RenderService.create_render_job.                                        *)
(***************************************************************************)
create_render_job(request, filename, code) ==
    /\ nextId <= MaxJobs
    /\ jobs' = add_job(jobs, NewJob(nextId, filename, code, now))
    /\ job_order' = DictOrder(job_order, jobs')
    /\ tasks' = [tasks EXCEPT ![nextId] = [IdleTask EXCEPT !.pc = "scheduled"]]
    /\ nextId' = nextId + 1
    /\ lastResponse' = Response("submit", request, 200,
                                 RenderJob(nextId, "queued", None, None))
    /\ Invalidate
    /\ UNCHANGED <<job_history, files, polled>>

\* a handler that queues the job it should reject
RejectedButQueued(request) ==
    create_render_job(request, request.filename, request.code)

\* the "except ValueError" branch of render_animation: HTTP 400
Rejected(request) ==
    /\ lastResponse' = Response("submit", request, 400, NoBody)
    /\ UNCHANGED <<jobs, job_order, job_history, tasks, files, nextId, polled, cacheVars>>

Submit(filename, code) ==
    /\ LoopIdle
    /\ LET vf == validate_filename(filename)
           vc == validate_code(code)
           request == RenderRequest(filename, code)
       IN  \/ /\ ~ vf.ok
              /\ Rejected(request)
           \/ /\ vf.ok /\ ~ vc.ok
              /\ Rejected(request)
           \/ /\ vf.ok /\ vc.ok
              /\ create_render_job(request, vf.value, vc.value)
    /\ UNCHANGED <<now, rateVars>>

(***************************************************************************)
(* RenderService._process_render_job, from its start to the await on the   *)
(* rendering subprocess.                                                   *)
(***************************************************************************)
TaskStart(id) ==
    /\ LoopIdle
    /\ tasks[id].pc = "scheduled"
    /\ IF ~ HasJob(jobs, id)
       THEN /\ tasks' = [tasks EXCEPT ![id] = Finished("done", "none")]
            /\ UNCHANGED <<jobs, job_order, job_history, files, cacheVars>>
       ELSE LET job == jobs[id]
                r == update_job(jobs, job_history, id, [status |-> "rendering"], now)
                code_path == SafeFilepath(job.filename, ".py", now)
                video_path == SafeFilepath(job.filename, ".mp4", now)
            IN  /\ jobs' = r.jobs
                /\ job_order' = DictOrder(job_order, jobs')
                /\ job_history' = r.history
                /\ CacheAfterUpdate(r)
                /\ \/ \* write_text fails: _save_code_file raises ValueError
                      /\ files' = files
                      /\ tasks' = [tasks EXCEPT ![id] =
                                     [@ EXCEPT !.pc = "except", !.exc = SaveError]]
                   \/ /\ files' = files \cup {code_path}
                      /\ IF get_scene_class_name(job.code) = ""
                         THEN tasks' = [tasks EXCEPT ![id] =
                                  [@ EXCEPT !.pc = "except", !.exc = NoSceneError,
                                            !.code_path = code_path]]
                         ELSE tasks' = [tasks EXCEPT ![id] =
                                  [@ EXCEPT !.pc = "awaiting", !.proc = "running",
                                            !.code_path = code_path,
                                            !.video_path = video_path]]
    /\ UNCHANGED <<now, nextId, lastResponse, polled, rateVars>>

\* what the wait on the subprocess ends with
Outcomes == {"exit0", "nonzero", "timeout", "exception"}

\* the subprocess after the wait: asyncio.wait_for cancels the wait only
ProcAfter(outcome) ==
    CASE outcome = "exit0" -> "exited"
      [] outcome = "nonzero" -> "exited_nonzero"
      [] outcome = "timeout" -> "running"
      [] outcome = "exception" -> "none"

\* a pipeline that trusts the exit code and does not look for the file
RenderSucceededUnchecked(outcome, video_path, disk) == outcome = "exit0"

\* "if success and video_path.exists()": _execute_manim_render returns True
\* only for returncode 0
RenderSucceeded(outcome, video_path, disk) ==
    outcome = "exit0" /\ video_path \in disk

(***************************************************************************)
(* _process_render_job from the end of the wait to the end of its try      *)
(* body: the terminal update and the removal of the scratch file.          *)
(***************************************************************************)
TaskResume(id, outcome, produced) ==
    /\ LoopIdle
    /\ tasks[id].pc = "awaiting"
    /\ LET t == tasks[id]
           disk == IF produced THEN files \cup {t.video_path} ELSE files
           r == IF RenderSucceeded(outcome, t.video_path, disk)
                THEN update_job(jobs, job_history, id,
                                [status |-> "ready", video_path |-> Some(t.video_path)], now)
                ELSE update_job(jobs, job_history, id,
                                [status |-> "error", error_message |-> Some(RenderFailed)], now)
       IN  /\ jobs' = r.jobs
           /\ job_order' = DictOrder(job_order, jobs')
           /\ job_history' = r.history
           /\ CacheAfterUpdate(r)
           /\ IF r.raised
              THEN /\ files' = disk
                   /\ tasks' = [tasks EXCEPT ![id] =
                                  [@ EXCEPT !.pc = "except", !.exc = AsdictError,
                                            !.proc = ProcAfter(outcome)]]
              ELSE /\ files' = disk \ {t.code_path}
                   /\ tasks' = [tasks EXCEPT ![id] = Finished("done", ProcAfter(outcome))]
    /\ UNCHANGED <<now, nextId, lastResponse, polled, rateVars>>

(***************************************************************************)
(* The handler "except Exception as e" of _process_render_job.             *)
(***************************************************************************)
TaskExcept(id) ==
    /\ tasks[id].pc = "except"
    /\ LET r == update_job(jobs, job_history, id,
                           [status |-> "error",
                            error_message |-> Some(ProcessingError(tasks[id].exc))], now)
       IN  /\ jobs' = r.jobs
           /\ job_order' = DictOrder(job_order, jobs')
           /\ job_history' = r.history
           /\ CacheAfterUpdate(r)
           /\ tasks' = [tasks EXCEPT ![id] =
                          Finished(IF r.raised THEN "crashed" ELSE "done", @.proc)]
    /\ UNCHANGED <<files, now, nextId, lastResponse, polled, rateVars>>

(***************************************************************************)
(* GET /api/render/{job_id} (routes.get_render_status), as one client      *)
(* that follows one job sees it.  polled is the last terminal or not-found *)
(* answer the client got, and issued tells whether the identifier had been *)
(* handed out by then; an answer "queued" or "rendering" leaves no trace.  *)
(***************************************************************************)
Issued(id) == id \in 1 .. nextId - 1

IsTerminalAnswer(resp) == resp.http = 200 /\ resp.body.status \in TerminalStatuses
IsNotFound(resp) == resp.http = 404

Poll(id) ==
    /\ LoopIdle
    /\ IF polled = None THEN TRUE ELSE polled[1].resp.body.jobId = id
    /\ LET resp == StatusResponse(jobs, id)
       IN  /\ IsTerminalAnswer(resp) \/ IsNotFound(resp)
           /\ polled' = Some([resp |-> resp, issued |-> Issued(id)])
    /\ UNCHANGED <<jobs, job_order, job_history, tasks, files, now, nextId, lastResponse,
                   rateVars, cacheVars>>

(***************************************************************************)
(* The rate limiter.  rate_limit_storage maps the keys present in          *)
(* _rate_limit_storage to their request times; admitted is the history of  *)
(* the admitted request times of every key, which the program forgets.     *)
(***************************************************************************)
SecondsPerMinute == 60

\* key = f"{client_ip}:{endpoint}"
Key(client_ip, endpoint) == client_ip \o ":" \o endpoint

\* request_times[0] < cutoff: popleft, repeated
RECURSIVE DropOld(_, _)
DropOld(times, cutoff) ==
    IF times # <<>> /\ Head(times) < cutoff THEN DropOld(Tail(times), cutoff) ELSE times

\* _rate_limit_storage[key] of a defaultdict(deque)
TimesOf(storage, key) == IF key \in DOMAIN storage THEN storage[key] ELSE <<>>

Put(storage, key, times) ==
    [k \in DOMAIN storage \cup {key} |-> IF k = key THEN times ELSE storage[k]]

\* a limiter that admits while the count is at the limit
check_rate_limit_off_by_one(storage, client_ip, endpoint, limit, window_minutes, t) ==
    LET key == Key(client_ip, endpoint)
        window_seconds == window_minutes * SecondsPerMinute
        request_times == DropOld(TimesOf(storage, key), t - window_seconds)
    IN  IF Len(request_times) > limit
        THEN [storage |-> Put(storage, key, request_times), allowed |-> FALSE]
        ELSE [storage |-> Put(storage, key, Append(request_times, t)), allowed |-> TRUE]

\* a limiter that records the time of a request it rejects
check_rate_limit_records_rejected(storage, client_ip, endpoint, limit, window_minutes, t) ==
    LET key == Key(client_ip, endpoint)
        window_seconds == window_minutes * SecondsPerMinute
        request_times == DropOld(TimesOf(storage, key), t - window_seconds)
    IN  [storage |-> Put(storage, key, Append(request_times, t)),
         allowed |-> Len(request_times) < limit]

\* ValidationService.check_rate_limit: the storage after the call and the result
check_rate_limit(storage, client_ip, endpoint, limit, window_minutes, t) ==
    LET key == Key(client_ip, endpoint)
        window_seconds == window_minutes * SecondsPerMinute
        request_times == DropOld(TimesOf(storage, key), t - window_seconds)
    IN  IF Len(request_times) >= limit
        THEN [storage |-> Put(storage, key, request_times), allowed |-> FALSE]
        ELSE [storage |-> Put(storage, key, Append(request_times, t)), allowed |-> TRUE]

\* the table "limits" of rate_limit_middleware and its default
LimitOf(endpoint) ==
    CASE endpoint = "/api/lesson" -> <<5, 5>>
      [] endpoint = "/api/example" -> <<5, 5>>
      [] endpoint = "/api/manim" -> <<3, 5>>
      [] endpoint = "/api/render" -> <<2, 10>>
      [] OTHER -> <<10, 5>>

\* a sweep that takes the age in minutes
clean_rate_limit_storage_minutes(storage, max_age_hours, t) ==
    LET cutoff == t - max_age_hours * SecondsPerMinute
        kept == {k \in DOMAIN storage : DropOld(storage[k], cutoff) # <<>>}
    IN  [k \in kept |-> DropOld(storage[k], cutoff)]

\* ValidationService.clean_rate_limit_storage
clean_rate_limit_storage(storage, max_age_hours, t) ==
    LET cutoff == t - max_age_hours * SecondsPerHour
        kept == {k \in DOMAIN storage : DropOld(storage[k], cutoff) # <<>>}
    IN  [k \in kept |-> DropOld(storage[k], cutoff)]

Clients == {"c1"}
Endpoints == {"/api/lesson", "/api/render"}
KeyPairs == Clients \X Endpoints
Keys == {Key(p[1], p[2]) : p \in KeyPairs}

MaxAdmits == 6
MaxTicks == 4
MaxRateHours == 1
\* the clock of the rate limiter moves by half the window of /api/lesson
TickSeconds == (LimitOf("/api/lesson")[2] * SecondsPerMinute) \div 2

RECURSIVE SumOver(_, _)
SumOver(f, S) ==
    IF S = {} THEN 0
    ELSE LET x == CHOOSE y \in S : TRUE IN Len(f[x]) + SumOver(f, S \ {x})

\* rate_limit_middleware for a request to an /api/ path
Allow(client_ip, endpoint) ==
    /\ SumOver(admitted, Keys) < MaxAdmits
    /\ LET lim == LimitOf(endpoint)
           key == Key(client_ip, endpoint)
           r == check_rate_limit(rate_limit_storage, client_ip, endpoint,
                                 lim[1], lim[2], now)
       IN  /\ rate_limit_storage' = r.storage
           /\ admitted' = IF r.allowed
                          THEN [admitted EXCEPT ![key] = Append(@, now)]
                          ELSE admitted
           /\ lastAllow' = [key |-> key, allowed |-> r.allowed, t |-> now,
                            rejected_at |->
                                IF r.allowed \/ key \notin Keys
                                THEN lastAllow.rejected_at
                                ELSE [lastAllow.rejected_at EXCEPT ![key] = now]]
    /\ UNCHANGED <<jobVars, now>>

(***************************************************************************)
(* Retention: main.cleanup_task and POST /monitoring/jobs/cleanup call     *)
(* cleanup_old_jobs and clean_rate_limit_storage with the same age.        *)
(***************************************************************************)
Cleanup(max_age_hours) ==
    /\ LoopIdle
    /\ LET r == cleanup_old_jobs(jobs, job_history, max_age_hours, now)
       IN  /\ jobs' = r.jobs
           /\ job_order' = DictOrder(job_order, jobs')
           /\ job_history' = r.history
    /\ Invalidate
    /\ rate_limit_storage' = clean_rate_limit_storage(rate_limit_storage, max_age_hours, now)
    /\ UNCHANGED <<tasks, files, now, nextId, lastResponse, polled, admitted, lastAllow>>

\* time passes: by a second or an hour while jobs are followed
AdvanceClock(d) ==
    /\ LoopIdle
    /\ \/ d = 1 /\ now % SecondsPerHour < MaxSecs
       \/ d = SecondsPerHour /\ now \div SecondsPerHour < MaxHours
    /\ now' = now + d
    /\ UNCHANGED <<jobVars, rateVars>>

\* time passes: by a tick or an hour while the rate limiter is followed
AdvanceTicks(d) ==
    /\ \/ d = TickSeconds /\ (now % SecondsPerHour) \div TickSeconds < MaxTicks
       \/ d = SecondsPerHour /\ now \div SecondsPerHour < MaxRateHours
    /\ now' = now + d
    /\ UNCHANGED <<jobVars, rateVars>>

(***************************************************************************)
(* A client that follows its jobs: GET /api/render/{job_id} every two or   *)
(* three seconds, each request passing rate_limit_middleware before the    *)
(* route get_render_status.                                                *)
(***************************************************************************)
MaxPollSeconds == 24
PollIntervals == {2, 3}

\* request.url.path of GET /api/render/{job_id}
StatusPath(id) == "/api/render/" \o ToString(id)

\* the JSONResponse of rate_limit_middleware: 429, no RenderJob
TooManyRequests(op) == Response(op, NoRequest, 429, NoBody)

\* rate_limit_middleware, then get_render_status when the request is let through
PolledStatus(client_ip, id) ==
    /\ LoopIdle
    /\ \/ /\ lastResponse.op = "submit" /\ lastResponse.http = 200
          /\ id = lastResponse.body.jobId
       \/ /\ lastResponse.op = "poll" /\ lastAllow.t < now
          /\ lastAllow.key = Key(client_ip, StatusPath(id))
    /\ LET lim == LimitOf(StatusPath(id))
           r == check_rate_limit(rate_limit_storage, client_ip, StatusPath(id),
                                 lim[1], lim[2], now)
       IN  /\ rate_limit_storage' = r.storage
           /\ lastAllow' = [lastAllow EXCEPT !.key = Key(client_ip, StatusPath(id)),
                                             !.allowed = r.allowed, !.t = now]
           /\ lastResponse' = IF r.allowed THEN StatusResponse(jobs, id)
                                           ELSE TooManyRequests("poll")
    /\ UNCHANGED <<jobs, job_order, job_history, tasks, files, now, nextId, polled, admitted,
                   cacheVars>>

\* the client sleeps between two polls
PollSleep(d) ==
    /\ lastResponse.op = "poll" /\ lastAllow.t = now
    /\ now + d <= MaxPollSeconds
    /\ now' = now + d
    /\ UNCHANGED <<jobVars, rateVars>>

Init ==
    /\ jobs = << >>
    /\ job_order = << >>
    /\ job_history = << >>
    /\ tasks = [i \in JobIds |-> IdleTask]
    /\ files = {}
    /\ now = 0
    /\ nextId = 1
    /\ lastResponse = Response("none", NoRequest, 0, NoBody)
    /\ polled = None
    /\ rate_limit_storage = << >>
    /\ admitted = [k \in Keys |-> << >>]
    /\ lastAllow = [key |-> Key("", ""), allowed |-> TRUE, t |-> 0,
                    rejected_at |-> [k \in Keys |-> -1]]
    /\ metrics_cache = None
    /\ metrics_cache_time = 0

Next ==
    \/ \E f \in FilenamePool, c \in CodePool : Submit(f, c)
    \/ \E id \in JobIds : TaskStart(id)
    \/ \E id \in JobIds, o \in Outcomes, p \in BOOLEAN : TaskResume(id, o, p)
    \/ \E id \in JobIds : TaskExcept(id)
    \/ \E id \in PollIds : Poll(id)
    \/ \E h \in MaxAgeHoursPool : Cleanup(h)
    \/ \E d \in ClockSteps : AdvanceClock(d)

Spec == Init /\ [][Next]_vars

NextRate ==
    \/ \E c \in Clients, e \in Endpoints : Allow(c, e)
    \/ \E h \in MaxAgeHoursPool : Cleanup(h)
    \/ \E d \in {TickSeconds, SecondsPerHour} : AdvanceTicks(d)

RateSpec == Init /\ [][NextRate]_vars

\* the client submits one job and then follows it
FirstSubmit(filename, code) == nextId = 1 /\ Submit(filename, code)

NextPoll ==
    \/ \E f \in FilenamePool, c \in CodePool : FirstSubmit(f, c)
    \/ \E id \in JobIds : TaskStart(id)
    \/ \E c \in Clients, id \in JobIds : PolledStatus(c, id)
    \/ \E d \in PollIntervals : PollSleep(d)

PollSpec == Init /\ [][NextPoll]_vars

\* POST /monitoring/jobs/cleanup
StoreCleanup(max_age_hours) ==
    /\ LET age == ClampAge(max_age_hours)
           r == cleanup_old_jobs(jobs, job_history, age, now)
       IN  /\ jobs' = r.jobs
           /\ job_order' = DictOrder(job_order, jobs')
           /\ job_history' = r.history
           /\ Invalidate
           /\ rate_limit_storage' = clean_rate_limit_storage(rate_limit_storage, age, now)
           /\ lastResponse' = Response("cleanup", NoRequest, 200,
                                       [max_age_hours |-> age, jobs_cleaned |-> r.count])
    /\ UNCHANGED <<tasks, files, now, nextId, polled, admitted, lastAllow>>

\* GET /monitoring/jobs/{job_id}/details
StoreJobDetails(id) ==
    /\ lastResponse' =
          IF ~ HasJob(jobs, id)
          THEN Response("details", NoRequest, 404, [id |-> id])
          ELSE Response("details", NoRequest, 200,
                        [id |-> id, status |-> jobs[id].status,
                         queue_position |->
                             IF jobs[id].status = "queued"
                             THEN get_queue_position(jobs, job_order, id) ELSE None,
                         estimated_wait |->
                             IF jobs[id].status = "queued"
                             THEN get_estimated_wait_time(jobs, job_order, job_history, id)
                             ELSE None])
    /\ IF HasJob(jobs, id) /\ jobs[id].status = "queued"
       THEN LET r == get_metrics(metrics_cache, metrics_cache_time, jobs, job_history,
                                 FALSE, now)
            IN  metrics_cache' = r.cache /\ metrics_cache_time' = r.time
       ELSE UNCHANGED cacheVars
    /\ UNCHANGED <<jobs, job_order, job_history, tasks, files, now, nextId, polled, rateVars>>

\* create_render_job's add_job, with an identifier that is not in the table
StoreAddJob(id) ==
    /\ ~ HasJob(jobs, id)
    /\ jobs' = add_job(jobs, NewJob(id, DemoName, DemoCode, now))
    /\ job_order' = DictOrder(job_order, jobs')
    /\ Invalidate
    /\ UNCHANGED <<job_history, tasks, files, now, nextId, lastResponse, polled, rateVars>>

\* _process_render_job's first update: a queued job is picked up
StoreMarkRendering(id) ==
    /\ HasJob(jobs, id) /\ jobs[id].status = "queued"
    /\ LET r == update_job(jobs, job_history, id, [status |-> "rendering"], now)
       IN  /\ jobs' = r.jobs
           /\ job_order' = DictOrder(job_order, jobs')
           /\ job_history' = r.history
           /\ CacheAfterUpdate(r)
    /\ UNCHANGED <<tasks, files, now, nextId, lastResponse, polled, rateVars>>

StoreInit ==
    /\ \E l \in StoreLists :
          /\ jobs = [id \in {l[k][1] : k \in DOMAIN l} |->
                        LET k == CHOOSE k \in DOMAIN l : l[k][1] = id
                        IN  StoredJob(id, l[k][2], StoreNow - l[k][3])]
          /\ job_order = [k \in DOMAIN l |-> l[k][1]]
    /\ \E h \in HistoryLists :
          job_history = [k \in DOMAIN h |->
                            LET done == StoreNow - h[k][1]
                                job == StoredJob(0, "error", done - h[k][2])
                            IN  HistoryRecord([job EXCEPT !.updated_at = done], done)]
    /\ tasks = [i \in JobIds |-> IdleTask]
    /\ files = {}
    /\ now = StoreNow
    /\ nextId = 1
    /\ lastResponse = Response("none", NoRequest, 0, NoBody)
    /\ polled = None
    /\ rate_limit_storage = << >>
    /\ admitted = [k \in Keys |-> << >>]
    /\ lastAllow = [key |-> Key("", ""), allowed |-> TRUE, t |-> 0,
                    rejected_at |-> [k \in Keys |-> -1]]
    /\ metrics_cache = None
    /\ metrics_cache_time = 0

NextStore ==
    \/ \E h \in AgeInputs : StoreCleanup(h)
    \/ \E id \in StoreIds : StoreJobDetails(id)
    \/ \E id \in StoreIds : StoreAddJob(id)
    \/ \E id \in StoreIds : StoreMarkRendering(id)

StoreSpec == StoreInit /\ [][NextStore]_vars

\* validate_filename applied to a name, as routes.render_animation does first
ValidateName(name) ==
    /\ lastResponse' = Response("validate", RenderRequest(name, << >>),
                                IF validate_filename(name).ok THEN 200 ELSE 400,
                                validate_filename(name))
    /\ UNCHANGED <<jobs, job_order, job_history, tasks, files, now, nextId, polled, rateVars,
                   cacheVars>>

\* the name validate_filename returned is validated again
ValidateAgain ==
    /\ lastResponse.op \in {"validate", "again"} /\ lastResponse.http = 200
    /\ LET name == lastResponse.body.value
       IN  lastResponse' = Response("again", RenderRequest(name, << >>),
                                    IF validate_filename(name).ok THEN 200 ELSE 400,
                                    validate_filename(name))
    /\ UNCHANGED <<jobs, job_order, job_history, tasks, files, now, nextId, polled, rateVars,
                   cacheVars>>

NextName ==
    \/ \E name \in NamePool : ValidateName(name)
    \/ ValidateAgain

NameSpec == Init /\ [][NextName]_vars

(***************************************************************************)
(* The metrics of the store while jobs are rendered.                       *)
(***************************************************************************)
MaxMetricsTicks == 3
MetricsTickSeconds == MetricsCacheDuration \div 2

\* GET /monitoring/jobs/metrics
GetMetrics ==
    /\ LoopIdle
    /\ LET r == get_metrics(metrics_cache, metrics_cache_time, jobs, job_history, FALSE, now)
       IN  /\ metrics_cache' = r.cache
           /\ metrics_cache_time' = r.time
           /\ lastResponse' = Response("metrics", NoRequest, 200, r.metrics)
    /\ UNCHANGED <<jobs, job_order, job_history, tasks, files, now, nextId, polled, rateVars>>

\* time passes, by half the life of the cache
MetricsTick ==
    /\ LoopIdle
    /\ now < MaxMetricsTicks * MetricsTickSeconds
    /\ now' = now + MetricsTickSeconds
    /\ UNCHANGED <<jobVars, rateVars>>

NextMetrics ==
    \/ \E f \in FilenamePool, c \in CodePool : FirstSubmit(f, c)
    \/ \E id \in JobIds : TaskStart(id)
    \/ \E id \in JobIds, o \in Outcomes, p \in BOOLEAN : TaskResume(id, o, p)
    \/ \E id \in JobIds : TaskExcept(id)
    \/ \E h \in MaxAgeHoursPool : Cleanup(h)
    \/ GetMetrics
    \/ MetricsTick

MetricsSpec == Init /\ [][NextMetrics]_vars

\* the render pipeline over the code texts of ScenePool
NextScene ==
    \/ \E f \in FilenamePool, c \in ScenePool : Submit(f, c)
    \/ \E id \in JobIds : TaskStart(id)
    \/ \E id \in JobIds, o \in Outcomes, p \in BOOLEAN : TaskResume(id, o, p)
    \/ \E id \in JobIds : TaskExcept(id)

SceneSpec == Init /\ [][NextScene]_vars

(***************************************************************************)
(* Fair scheduling: the event loop runs every task that is ready, and the  *)
(* wait on the rendering subprocess ends (it exits or the timeout fires).  *)
(***************************************************************************)
LiveSpec ==
    /\ Init /\ [][Next]_vars
    /\ \A id \in JobIds :
          /\ WF_vars(TaskStart(id))
          /\ WF_vars(\E o \in Outcomes, p \in BOOLEAN : TaskResume(id, o, p))
          /\ WF_vars(TaskExcept(id))

(***************************************************************************)
(* The claims.                                                             *)
(***************************************************************************)
ForwardTransitions ==
    { <<"queued", "rendering">>, <<"rendering", "ready">>, <<"rendering", "error">> }

\* C1: the statuses the store holds for a job over time form a subsequence
\* of queued -> rendering -> (ready | error): every change of a job's status
\* is one of these forward transitions.
C1_StatusForwardOnly ==
    [][\A id \in DOMAIN jobs \cap DOMAIN jobs' :
          \/ jobs'[id].status = jobs[id].status
          \/ <<jobs[id].status, jobs'[id].status>> \in ForwardTransitions]_vars

C3_SubmitReturnsQueued ==
    [][nextId' # nextId =>
          /\ lastResponse'.op = "submit" /\ lastResponse'.http = 200
          /\ lastResponse'.body = RenderJob(nextId, "queued", None, None)
          /\ HasJob(jobs', nextId)
          /\ jobs'[nextId].status = "queued"
          /\ jobs'[nextId].video_path = None /\ jobs'[nextId].error_message = None
          /\ tasks'[nextId].pc = "scheduled" /\ tasks'[nextId].proc = "none"
          /\ files' = files]_vars

C3_Witness ==
    /\ lastResponse.op = "submit" /\ lastResponse.http = 200
    /\ HasJob(jobs, lastResponse.body.jobId)
    /\ jobs[lastResponse.body.jobId].status = "queued"
    /\ nextId = lastResponse.body.jobId + 1

\* C4: once the client has got a terminal answer for its job, every later
\* answer is the same record or not found; once it has got not found for an
\* identifier already handed out, every later answer is not found; and an
\* identifier that has left the table never comes back into it.
C4_TerminalAnswerStable ==
    [][/\ polled # None =>
            LET old == polled[1]
                new == polled'[1]
            IN  /\ IsTerminalAnswer(old.resp) =>
                      new.resp = old.resp \/ IsNotFound(new.resp)
                /\ IsNotFound(old.resp) /\ old.issued => IsNotFound(new.resp)
       /\ \A id \in JobIds :
            Issued(id) /\ ~ HasJob(jobs, id) => ~ HasJob(jobs', id)]_vars

C4_Witness ==
    /\ polled # None
    /\ IsNotFound(polled[1].resp) /\ polled[1].issued
    /\ tasks[polled[1].resp.body.jobId].pc = "crashed"

\* a request that must not be admitted: a character outside the allowed set
\* in the name, or an import of a denylisted module in the code
Unsafe(request) ==
    \/ \E i \in DOMAIN request.filename : request.filename[i] \notin SafeChars \cup {"."}
    \/ \E i \in DOMAIN request.code :
          LineInfo(request.code[i]).import \in DANGEROUS_IMPORTS

FailsValidation(request) ==
    \/ ~ validate_filename(request.filename).ok
    \/ ~ validate_code(request.code).ok

\* C5: a submission that fails validation is answered with an error and
\* nothing else changes: no identifier is handed out, the job table and the
\* history are as before, no task is scheduled and no file is written.
C5_InvalidRejected ==
    [][lastResponse' # lastResponse /\ lastResponse'.op = "submit" =>
          LET request == lastResponse'.request IN
          /\ Unsafe(request) => FailsValidation(request)
          /\ FailsValidation(request) =>
                /\ lastResponse'.http = 400
                /\ lastResponse'.body = NoBody
                /\ nextId' = nextId
                /\ jobs' = jobs /\ job_history' = job_history
                /\ tasks' = tasks /\ files' = files]_vars

C5_Witness ==
    /\ lastResponse.op = "submit" /\ lastResponse.http = 400
    /\ \E i \in DOMAIN lastResponse.request.code :
          lastResponse.request.code[i] = "import os"
    /\ validate_filename(lastResponse.request.filename).ok
    /\ nextId > 1

\* C6: for an identifier that is not in the table, the status query answers
\* not found with no job in the body, and a step of that identifier's render
\* task (its update_job calls) changes neither the table nor the history;
\* update_job returns false and returns the table it was given.
C6_UnknownIdUntouched ==
    [][\A id \in JobIds :
          ~ HasJob(jobs, id) =>
             /\ /\ tasks[id].pc \in {"scheduled", "awaiting", "except"}
                /\ tasks'[id] # tasks[id]
                => jobs' = jobs /\ job_history' = job_history
             /\ /\ polled' # polled
                /\ polled'[1].resp.body.jobId = id
                => /\ polled'[1].resp = Response("poll", NoRequest, 404,
                                                 RenderJob(id, "", None, None))
                   /\ jobs' = jobs /\ job_history' = job_history
             /\ LET r == update_job(jobs, job_history, id, [status |-> "error"], now)
                IN  ~ r.found /\ ~ r.raised /\ r.jobs = jobs /\ r.history = job_history]_vars

C6_Witness ==
    \E id \in JobIds :
        /\ Issued(id) /\ ~ HasJob(jobs, id)
        /\ tasks[id].pc = "done" /\ tasks[id].proc = "exited"
        /\ polled # None /\ polled[1].resp.body.jobId = id

\* C7: in the answer to a status query for a job of the table, videoUrl is
\* set exactly when status is ready, and error is set only when status is
\* error.
C7_ResponseFields ==
    \A id \in DOMAIN jobs :
        LET r == get_job_status(jobs[id])
        IN  /\ r.videoUrl # None <=> r.status = "ready"
            /\ r.error # None => r.status = "error"

C7_Witness ==
    /\ polled # None
    /\ polled[1].resp.http = 200
    /\ polled[1].resp.body.status = "error"
    /\ polled[1].resp.body.error # None
    /\ polled[1].resp.body.videoUrl = None
    /\ HasJob(jobs, polled[1].resp.body.jobId)
    /\ jobs[polled[1].resp.body.jobId].video_path # None

\* C8: in the job table, video_path is set only if status is ready,
\* error_message is set only if status is error, and no job has both set.
C8_PathAndMessageExclusive ==
    \A id \in DOMAIN jobs :
        /\ jobs[id].video_path # None => jobs[id].status = "ready"
        /\ jobs[id].error_message # None => jobs[id].status = "error"
        /\ ~ (jobs[id].video_path # None /\ jobs[id].error_message # None)


(***************************************************************************)
(* Rate limiter claims, checked under RateSpec.                            *)
(***************************************************************************)
LimitOfKey(p) == LimitOf(p[2])[1]
WindowOfKey(p) == LimitOf(p[2])[2] * SecondsPerMinute
AdmittedOf(p) == admitted[Key(p[1], p[2])]

\* admissions of the pair p with a timestamp in the closed interval [t - W, t]
AdmittedIn(p, t) ==
    Cardinality({i \in 1 .. Len(AdmittedOf(p)) :
                    /\ AdmittedOf(p)[i] >= t - WindowOfKey(p)
                    /\ AdmittedOf(p)[i] <= t})

\* C9: for every key, whatever Allow calls and sweeps came before, no
\* interval of the window's length that ends at an admission or at the
\* present holds more than the key's limit of admitted requests; a request
\* made when the limit is reached inside the window is the rejected one.
C9_WindowNeverExceedsLimit ==
    \A p \in KeyPairs :
        /\ AdmittedIn(p, now) <= LimitOfKey(p)
        /\ \A j \in 1 .. Len(AdmittedOf(p)) :
               AdmittedIn(p, AdmittedOf(p)[j]) <= LimitOfKey(p)

\* five requests to /api/lesson admitted in one window, the sixth rejected
C9_Witness ==
    LET p == <<"c1", "/api/lesson">>
    IN  /\ LimitOfKey(p) = 5
        /\ Len(AdmittedOf(p)) = 5
        /\ AdmittedOf(p)[5] - AdmittedOf(p)[1] < WindowOfKey(p)
        /\ lastAllow.key = Key(p[1], p[2])
        /\ ~ lastAllow.allowed
        /\ lastAllow.t - AdmittedOf(p)[1] < WindowOfKey(p)

WindowElapsed(p) ==
    \A i \in 1 .. Len(AdmittedOf(p)) : AdmittedOf(p)[i] < now - WindowOfKey(p)

NextAllowAdmits(p) ==
    check_rate_limit(rate_limit_storage, p[1], p[2],
                     LimitOf(p[2])[1], LimitOf(p[2])[2], now).allowed

RejectedAllowRecordsNothing ==
    \A c \in Clients, e \in Endpoints :
        (Allow(c, e) /\ ~ lastAllow'.allowed) =>
            /\ admitted' = admitted
            /\ Range(TimesOf(rate_limit_storage', Key(c, e)))
                   \subseteq Range(TimesOf(rate_limit_storage, Key(c, e)))
            /\ Len(TimesOf(rate_limit_storage', Key(c, e)))
                   <= Len(TimesOf(rate_limit_storage, Key(c, e)))

\* C10: once more than the window has passed since every admitted request
\* of a key, the next Allow for the key is admitted, whatever rejected
\* requests were made meanwhile; and a rejected Allow adds no timestamp to
\* the key's record.
C10_LimitedKeyRecovers ==
    /\ [](\A p \in KeyPairs : WindowElapsed(p) => NextAllowAdmits(p))
    /\ [][RejectedAllowRecordsNothing]_vars

\* a key at its limit was refused, and then admitted less than a window
\* after the refusal
C10_Witness ==
    \E p \in KeyPairs :
        LET k == Key(p[1], p[2]) IN
        /\ lastAllow.key = k
        /\ lastAllow.allowed
        /\ Len(AdmittedOf(p)) = LimitOfKey(p) + 1
        /\ lastAllow.rejected_at[k] > AdmittedOf(p)[LimitOfKey(p)]
        /\ lastAllow.t > lastAllow.rejected_at[k]
        /\ lastAllow.t - lastAllow.rejected_at[k] < WindowOfKey(p)
        /\ AdmittedOf(p)[LimitOfKey(p) + 1] = lastAllow.t


(***************************************************************************)
(* Status polling and the rate limiter, checked under PollSpec.            *)
(***************************************************************************)
\* C11: a client that polls the status of a job every two or three seconds
\* is never answered 429 by the rate limiter.
C11_PollingNeverLimited ==
    lastResponse.op = "poll" => lastResponse.http # 429


(***************************************************************************)
(* The outcome of rendering, checked under Spec.                           *)
(***************************************************************************)
BecomesReady(id) ==
    /\ HasJob(jobs, id) /\ HasJob(jobs', id)
    /\ jobs[id].status # "ready" /\ jobs'[id].status = "ready"

\* C12: a job becomes ready only in the step that ends the wait on a
\* subprocess that exited with code zero, with the output file on disk, and
\* the step records that file's path; a step that ends the wait with a
\* nonzero exit, a timeout or a missing file leaves the job in error, and a
\* job in error never becomes ready.
C12_ReadyOnlyOnSuccess ==
    [][\A id \in JobIds :
          /\ BecomesReady(id) =>
                /\ \E p \in BOOLEAN : TaskResume(id, "exit0", p)
                /\ tasks[id].video_path \in files'
                /\ jobs'[id].video_path = Some(tasks[id].video_path)
          /\ \A o \in Outcomes, p \in BOOLEAN :
                /\ TaskResume(id, o, p) /\ HasJob(jobs, id)
                /\ o # "exit0" \/ tasks[id].video_path \notin files'
                => jobs'[id].status = "error"
          /\ HasJob(jobs, id) /\ HasJob(jobs', id) /\ jobs[id].status = "error"
                => jobs'[id].status = "error"]_vars

\* the subprocess has exited with code zero, the file is there, and the job
\* is ready with the file's path
C12_Witness ==
    \E id \in JobIds :
        /\ HasJob(jobs, id)
        /\ jobs[id].status = "ready"
        /\ tasks[id].proc = "exited"
        /\ jobs[id].video_path = Some(tasks[id].video_path)
        /\ tasks[id].video_path \in files


\* the wait on the subprocess of job id ended by the timeout: the task has
\* gone on and the subprocess is still running
TimedOut(id) == tasks[id].proc = "running" /\ tasks[id].pc # "awaiting"

ExitedNonzero(id) == tasks[id].proc = "exited_nonzero"

\* C13: a job whose subprocess exceeded the timeout is in error with a
\* message that differs from the message of a job whose subprocess exited
\* with a nonzero code.
C13_TimeoutMessageDistinct ==
    \A i, j \in DOMAIN jobs :
        /\ TimedOut(i) /\ ExitedNonzero(j)
        /\ tasks[i].pc = "done" /\ tasks[j].pc = "done"
        => /\ jobs[i].status = "error" /\ jobs[j].status = "error"
           /\ jobs[i].error_message # jobs[j].error_message

\* the jobs created more than max_age_hours before t
Expired(store, max_age_hours, t) ==
    {i \in DOMAIN store : t - store[i].created_at > max_age_hours * SecondsPerHour}

\* the record was completed more than 7 x max_age_hours before t
CompletedLongAgo(r, max_age_hours, t) ==
    t - r.completed_at > HistoryRetentionFactor * max_age_hours * SecondsPerHour

C15_CleanupIdempotent ==
    \A x \in AgeInputs :
        LET h == ClampAge(x)
            first == cleanup_old_jobs(jobs, job_history, h, now)
            second == cleanup_old_jobs(first.jobs, first.history, h, now)
        IN  /\ second.count = 0
            /\ second.jobs = first.jobs
            /\ second.history = first.history

\* two expired jobs and an old history record are in the store and an
\* earlier sweep, with a larger maxAge, has removed nothing
C15_Witness ==
    /\ lastResponse.op = "cleanup"
    /\ lastResponse.body.jobs_cleaned = 0
    /\ \E h \in {ClampAge(x) : x \in AgeInputs} :
          /\ h < lastResponse.body.max_age_hours
          /\ Cardinality(Expired(jobs, h, now)) >= 2
          /\ \E k \in DOMAIN job_history : CompletedLongAgo(job_history[k], h, now)

\* the queued jobs of a table
Queued(store) == {i \in DOMAIN store : store[i].status = "queued"}

\* job j was put into the table before job i
InsertedBefore(order, j, i) == IndexOf(order, j) < IndexOf(order, i)

\* the 1-based rank of job id among the queued jobs by created_at, jobs of
\* the same created_at ranked by identifier
RankByIdentifier(store, id) ==
    1 + Cardinality({j \in Queued(store) :
                        \/ store[j].created_at < store[id].created_at
                        \/ store[j].created_at = store[id].created_at /\ j < id})

\* the same rank, jobs of the same created_at ranked by their order of
\* insertion into the table
RankByInsertion(store, order, id) ==
    1 + Cardinality({j \in Queued(store) :
                        \/ store[j].created_at < store[id].created_at
                        \/ /\ store[j].created_at = store[id].created_at
                           /\ InsertedBefore(order, j, id)})

\* the positions of the queued jobs
Positions(store, order) ==
    {get_queue_position(store, order, i) : i \in Queued(store)}

\* C16 as stated: get_queue_position is the 1-based rank of a queued job among
\* the queued jobs by created_at ascending, ties ordered by identifier; the
\* positions of n queued jobs are exactly 1..n; it is None for a job that is
\* absent or not queued.
C16_QueuePositionByIdentifier ==
    /\ \A id \in StoreIds :
          get_queue_position(jobs, job_order, id) =
              IF id \in Queued(jobs) THEN Some(RankByIdentifier(jobs, id)) ELSE None
    /\ Positions(jobs, job_order) = {Some(p) : p \in 1 .. Cardinality(Queued(jobs))}

\* C16 amended: get_queue_position is the 1-based rank of a queued job among
\* the queued jobs by created_at ascending, jobs of the same created_at in
\* the order in which they were added to the table; the positions of n
\* queued jobs are exactly 1..n; it is None for a job that is absent or not
\* queued.
C16_QueuePositionByInsertion ==
    /\ \A id \in StoreIds :
          get_queue_position(jobs, job_order, id) =
              IF id \in Queued(jobs)
              THEN Some(RankByInsertion(jobs, job_order, id)) ELSE None
    /\ Positions(jobs, job_order) = {Some(p) : p \in 1 .. Cardinality(Queued(jobs))}

\* the details of a queued job have been asked for and give its position,
\* while a job with a larger identifier and the same created_at was added
\* before it and stands ahead of it
C16_Witness ==
    /\ lastResponse.op = "details" /\ lastResponse.http = 200
    /\ LET i == lastResponse.body.id
       IN  /\ i \in Queued(jobs)
           /\ lastResponse.body.queue_position = get_queue_position(jobs, job_order, i)
           /\ \E j \in Queued(jobs) :
                 /\ j > i
                 /\ jobs[j].created_at = jobs[i].created_at
                 /\ InsertedBefore(job_order, j, i)
                 /\ get_queue_position(jobs, job_order, j)[1] < lastResponse.body.queue_position[1]

\* the position of a queued job, as a number
PositionOf(store, order, id) == get_queue_position(store, order, id)[1]

\* C17: when queued jobs leave the queue in a step (removed by a sweep, or
\* picked up for rendering), the position of every job that stays queued
\* goes down by one for each leaver that stood ahead of it, so by exactly one
\* behind a single leaver and by nothing ahead of it; in a step in which no
\* queued job leaves, no position changes.
C17_PositionsShiftOnLeave ==
    [][LET left == Queued(jobs) \ Queued(jobs')
       IN  \A j \in Queued(jobs) \cap Queued(jobs') :
              PositionOf(jobs', job_order', j) =
                  PositionOf(jobs, job_order, j)
                  - Cardinality({q \in left : PositionOf(jobs, job_order, q)
                                                 < PositionOf(jobs, job_order, j)})]_vars

\* a job has just been picked up for rendering and a job that was queued
\* behind it now stands first
C17_Witness ==
    \E q \in DOMAIN jobs :
        /\ jobs[q].status = "rendering"
        /\ jobs[q].updated_at = now /\ jobs[q].created_at < now
        /\ \E j \in Queued(jobs) :
              /\ jobs[q].created_at <= jobs[j].created_at
              /\ InsertedBefore(job_order, q, j)
              /\ get_queue_position(jobs, job_order, j) = Some(1)

\* the fraction w equals n times the average of the processing times of the
\* history, which is not empty
IsTimesAverage(w, n, history) ==
    w.num * Len(history) = n * SumTimes(history) * w.den

\* C18: get_estimated_wait_time of a job at queue position p is (p - 1) times
\* the average processing time of the history records when there are any,
\* and (p - 1) x 30 seconds otherwise; it is 0 at position 1 and never
\* negative; it is None for a job that is absent or not queued.
C18_EstimatedWait ==
    \A id \in StoreIds :
        LET wait == get_estimated_wait_time(jobs, job_order, job_history, id)
        IN  IF id \notin Queued(jobs) THEN wait = None
            ELSE LET p == PositionOf(jobs, job_order, id)
                     w == wait[1]
                 IN  /\ wait # None
                     /\ w.den > 0 /\ w.num >= 0
                     /\ p = 1 => w.num = 0
                     /\ IF job_history # << >>
                        THEN IsTimesAverage(w, p - 1, job_history)
                        ELSE w.num = (p - 1) * FallbackWaitSeconds * w.den

\* the details of a queued job that is not first have been asked for, with a
\* history whose average is not a whole number of seconds, and give the wait
C18_Witness ==
    /\ lastResponse.op = "details" /\ lastResponse.http = 200
    /\ LET i == lastResponse.body.id
       IN  /\ i \in Queued(jobs)
           /\ PositionOf(jobs, job_order, i) > 1
           /\ job_history # << >>
           /\ lastResponse.body.estimated_wait =
                 get_estimated_wait_time(jobs, job_order, job_history, i)
           /\ lastResponse.body.estimated_wait[1].num > 0
           /\ lastResponse.body.estimated_wait[1].num % lastResponse.body.estimated_wait[1].den # 0

\* C19: add_job of a job whose identifier is already in the table fails and
\* leaves the record of the table as it is.
C19_AddJobKeepsExisting ==
    \A id \in DOMAIN jobs :
        add_job(jobs, NewJob(id, DemoName, DemoCode, now))[id] = jobs[id]

\* the rules validate_filename enforces on a name
SatisfiesRules(name) ==
    /\ \A i \in DOMAIN name : name[i] \in SafeChars
    /\ Len(name) >= 1 /\ Len(name) <= FilenameMaxLen
    /\ Lower(name) \notin reserved_names
    /\ name[1] # "-"

\* C20: every name validate_filename returns contains only letters, digits,
\* underscore and hyphen, has between 1 and 50 characters, is not a reserved
\* device name and does not begin with "-"; validating it again returns it
\* unchanged.
C20_ValidatedNameSatisfiesRules ==
    lastResponse.op \in {"validate", "again"} /\ lastResponse.http = 200
        => /\ SatisfiesRules(lastResponse.body.value)
           /\ validate_filename(lastResponse.body.value) = Ok(lastResponse.body.value)

\* the task of job id has ended, normally or not
TaskEnded(id) == tasks[id].pc \in {"done", "crashed"}

\* C21: no exception escapes a render task: whatever is raised in
\* _process_render_job, also while the terminal state is being recorded, the
\* task ends normally with the job recorded as error.
C21_NoExceptionEscapes ==
    \A id \in JobIds :
        /\ tasks[id].pc # "crashed"
        /\ TaskEnded(id) /\ HasJob(jobs, id) => jobs[id].status \in TerminalStatuses

\* C22: when a task that wrote a scratch code file ends, whatever the
\* outcome, that file no longer exists.
C22_ScratchFileRemoved ==
    [][\A id \in JobIds :
          /\ ~ TaskEnded(id)
          /\ tasks'[id].pc \in {"done", "crashed"}
          /\ tasks[id].code_path # NoPath
          => tasks[id].code_path \notin files']_vars

\* the task of job id is between its first step and its end and holds paths
TaskRunning(id) == tasks[id].pc \in {"awaiting", "except"} /\ tasks[id].code_path # NoPath

\* C23: two jobs that are processed at the same time never use the same
\* scratch code file path or the same output file path.
C23_PathsNeverShared ==
    \A i, j \in JobIds :
        i # j /\ TaskRunning(i) /\ TaskRunning(j)
            => /\ tasks[i].code_path # tasks[j].code_path
               /\ tasks[i].video_path = NoPath \/ tasks[i].video_path # tasks[j].video_path

\* C24: no rendering subprocess of a job is still running once the job is
\* ready or error: after a timeout the task kills the subprocess before it
\* records the error.
C24_NoSubprocessAfterTerminal ==
    \A id \in JobIds :
        HasJob(jobs, id) /\ jobs[id].status \in TerminalStatuses
            => tasks[id].proc # "running"

\* the code has a class that derives from Scene
HasSceneClass(code) == \E i \in DOMAIN code : LineInfo(code[i]).scene # ""

\* C25: a job whose code has no class derived from Scene goes to error with
\* the structural error and the rendering tool is never started for it: no
\* other class of the code is used as the entry point.
C25_NoFallbackEntryPoint ==
    \A id \in JobIds :
        HasJob(jobs, id) /\ ~ HasSceneClass(jobs[id].code)
            => /\ tasks[id].proc = "none"
               /\ TaskEnded(id) => jobs[id].status = "error"

\* C26: whenever update_job changes a job's status to ready or error, one
\* history record holding a copy of the job's fields is appended in the same
\* step, the oldest record being evicted when the history is over capacity.
C26_TerminalTransitionArchived ==
    [][\A id \in DOMAIN jobs \cap DOMAIN jobs' :
          /\ jobs'[id].status # jobs[id].status
          /\ jobs'[id].status \in TerminalStatuses
          => job_history' = LastN(Append(job_history, HistoryRecord(jobs'[id], now)),
                                  HistoryCap)]_vars

\* C27: the history holds at most 1000 records in the order of completion,
\* and it is the most recent terminal transitions: every job of the table
\* that is ready or error has its record in it.
C27_HistoryIsRecentTransitions ==
    /\ Len(job_history) <= HistoryCap
    /\ \A a, b \in DOMAIN job_history :
          a < b => job_history[a].completed_at <= job_history[b].completed_at
    /\ \A id \in DOMAIN jobs :
          jobs[id].status \in TerminalStatuses
              => \E k \in DOMAIN job_history : job_history[k].id = id

\* C28: once a job is ready or error the store no longer holds its code.
C28_CodeDroppedWhenTerminal ==
    \A id \in DOMAIN jobs :
        jobs[id].status \in TerminalStatuses => jobs[id].code = << >>

(***************************************************************************)
(* The sweep of the rate-limit table, checked under RateSpec.              *)
(***************************************************************************)
\* the timestamps of a key that are not older than max_age_hours at time t
NotOlder(times, max_age_hours, t) ==
    LET recent(ts) == ts >= t - max_age_hours * SecondsPerHour
    IN  SelectSeq(times, recent)

\* the times at which a later request may come
LaterTimes == {now + k * TickSeconds : k \in 0 .. MaxTicks}

\* max_age_hours is at least as long as the window of every endpoint
CoversWindows(max_age_hours) ==
    \A e \in Endpoints :
        max_age_hours * SecondsPerHour >= LimitOf(e)[2] * SecondsPerMinute

\* C29: after clean_rate_limit_storage(maxAge) no key holds a timestamp
\* older than maxAge, no key with an empty window is left, and every
\* timestamp not older than maxAge is kept; and when maxAge covers every
\* configured window, any later check_rate_limit sees the same window and
\* gives the same answer with or without the sweep.
C29_SweepKeepsWindows ==
    \A h \in MaxAgeHoursPool :
        LET swept == clean_rate_limit_storage(rate_limit_storage, h, now)
        IN  /\ \A k \in DOMAIN swept : swept[k] # << >>
            /\ \A k \in DOMAIN rate_limit_storage :
                  TimesOf(swept, k) = NotOlder(rate_limit_storage[k], h, now)
            /\ DOMAIN swept \subseteq DOMAIN rate_limit_storage
            /\ CoversWindows(h) =>
                  \A p \in KeyPairs, t \in LaterTimes :
                      LET lim == LimitOf(p[2])
                          with == check_rate_limit(swept, p[1], p[2], lim[1], lim[2], t)
                          without == check_rate_limit(rate_limit_storage, p[1], p[2],
                                                      lim[1], lim[2], t)
                      IN  /\ with.allowed = without.allowed
                          /\ with.storage[Key(p[1], p[2])] = without.storage[Key(p[1], p[2])]

\* a sweep has removed the key of one endpoint, whose admissions had all
\* grown old, and has left the key of another, which is at its limit
C29_Witness ==
    \E k1, k2 \in Keys :
        /\ admitted[k1] # << >> /\ k1 \notin DOMAIN rate_limit_storage
        /\ k2 \in DOMAIN rate_limit_storage
        /\ rate_limit_storage[k2] # << >>
        /\ \E p \in KeyPairs : Key(p[1], p[2]) = k2 /\ ~ NextAllowAdmits(p)

\* C30: the cached metrics are never stale: get_metrics() returns the same
\* total, the same counts per status and the same success and error rates
\* as get_metrics(force_refresh=True), whatever calls of the store came
\* before, an update_job that failed part-way included.
C30_CacheNeverStale ==
    LET cached == get_metrics(metrics_cache, metrics_cache_time, jobs, job_history,
                              FALSE, now).metrics
        fresh == get_metrics(metrics_cache, metrics_cache_time, jobs, job_history,
                             TRUE, now).metrics
    IN  /\ cached.total_jobs = fresh.total_jobs
        /\ cached.jobs_by_status = fresh.jobs_by_status
        /\ cached.success_rate = fresh.success_rate
        /\ cached.error_rate = fresh.error_rate

====
